---- MODULE Spec2Model ----
(***************************************************************************)
(* Exclusion rules of timewarrior (src/src/Exclusion.cpp): parsing a rule  *)
(* line (Exclusion::initialize), serialising it (Exclusion::serialize) and *)
(* expanding it over a query range (Exclusion::ranges, with                *)
(* Exclusion::rangeFromTimeBlock).                                         *)
(*                                                                         *)
(* Text.  A string is a sequence of units.  A unit is one character,       *)
(* except that a whole HH:MM:SS field and a whole date are one unit each   *)
(* (the decimal text of a tick of the day, resp. of a day number): the     *)
(* scanner's getHMS and the Datetime constructor consume them whole.       *)
(*                                                                         *)
(* Time.  A Datetime is a number of ticks; a calendar day has TicksPerDay  *)
(* ticks, day d starts at tick d * TicksPerDay, and day 0 is a Monday.     *)
(***************************************************************************)
EXTENDS Integers, Sequences, FiniteSets, TLC

\* Resolution of the clock: ticks in one calendar day.
TicksPerDay == 3
\* Calendar days the model covers: days 0 .. MaxDay-1.
MaxDay == 8
\* Most time blocks on one rule line.
MaxBlocks == 2

\* Calendar: days in a week, and the weekday index of day 0 (a Monday).
DaysPerWeek == 7
FirstWeekday == 1

Max(a, b) == IF a >= b THEN a ELSE b
Min(a, b) == IF a <= b THEN a ELSE b

----------------------------------------------------------------------------
\* Words of the rule language, as sequences of characters.

EXC      == <<"e", "x", "c">>
DAY      == <<"d", "a", "y">>
ON       == <<"o", "n">>
OFF      == <<"o", "f", "f">>
FOO      == <<"f", "o", "o">>
NOTATIME == <<"n", "o", "t", "a", "t", "i", "m", "e">>

SUNDAY    == <<"s", "u", "n", "d", "a", "y">>
MONDAY    == <<"m", "o", "n", "d", "a", "y">>
TUESDAY   == <<"t", "u", "e", "s", "d", "a", "y">>
WEDNESDAY == <<"w", "e", "d", "n", "e", "s", "d", "a", "y">>
THURSDAY  == <<"t", "h", "u", "r", "s", "d", "a", "y">>
FRIDAY    == <<"f", "r", "i", "d", "a", "y">>
SATURDAY  == <<"s", "a", "t", "u", "r", "d", "a", "y">>

\* The text of a time of day (one HH:MM:SS field) and of a date.
HMSText(t)  == ToString(t)
DateText(d) == <<ToString(d)>>

Days  == 0 .. (MaxDay - 1)
Ticks == 0 .. (MaxDay * TicksPerDay)
Times == 0 .. (TicksPerDay - 1)

----------------------------------------------------------------------------
\* String utilities.

\* split (line): the maximal runs of non-blank characters, in order.
RECURSIVE splitFrom(_, _, _)
splitFrom(s, cur, acc) ==
  IF s = <<>>
  THEN IF cur = <<>> THEN acc ELSE Append(acc, cur)
  ELSE IF Head(s) = " "
       THEN splitFrom(Tail(s), <<>>, IF cur = <<>> THEN acc ELSE Append(acc, cur))
       ELSE splitFrom(Tail(s), Append(cur, Head(s)), acc)

split(line) == splitFrom(line, <<>>, <<>>)

\* join (separator, items): the items with the separator between neighbours.
RECURSIVE join(_, _)
join(sep, items) ==
  IF items = <<>> THEN <<>>
  ELSE IF Len(items) = 1 THEN Head(items)
  ELSE Head(items) \o sep \o join(sep, Tail(items))

----------------------------------------------------------------------------
\* Calendar primitives.

\* Datetime::dayOfWeek (name): the index of a weekday name, -1 when unknown.
dayOfWeekName(name) ==
  IF name = SUNDAY THEN 0
  ELSE IF name = MONDAY THEN 1
  ELSE IF name = TUESDAY THEN 2
  ELSE IF name = WEDNESDAY THEN 3
  ELSE IF name = THURSDAY THEN 4
  ELSE IF name = FRIDAY THEN 5
  ELSE IF name = SATURDAY THEN 6
  ELSE -1

\* Datetime::dayOfWeek (): the weekday of the day a Datetime lies in.
dayOfWeek(t) == ((t \div TicksPerDay) + FirstWeekday) % DaysPerWeek

\* Datetime (date text): midnight of the named day.
DatetimeFromText(tok) ==
  (CHOOSE d \in Days : DateText(d) = tok) * TicksPerDay

\* Datetime (year, month, day, hh, mm, ss), the date taken from `start'.
DatetimeYMDHMS(start, hms) == (start \div TicksPerDay) * TicksPerDay + hms

\* Datetime::operator++: the same time of day, one calendar day later.
DatetimeIncrement(t) == t + TicksPerDay

\* Range (start, end) and Range::overlap: the two half-open intervals share
\* an instant.
Range(s, e) == [start |-> s, end |-> e]
overlap(a, b) == Max(a.start, b.start) < Min(a.end, b.end)

----------------------------------------------------------------------------
\* Exclusion::initialize.  `_tokens' is assigned before the syntax is
\* validated; `_additive' only on the accepting paths.

initialize(line, oldAdditive) ==
  LET toks == split(line) IN
  IF Len(toks) >= 2 /\ toks[1] = EXC
  THEN IF Len(toks) = 4 /\ toks[2] = DAY /\ toks[3] = ON
       THEN [tokens |-> toks, additive |-> TRUE, thrown |-> FALSE]
       ELSE IF Len(toks) = 4 /\ toks[2] = DAY /\ toks[3] = OFF
       THEN [tokens |-> toks, additive |-> FALSE, thrown |-> FALSE]
       ELSE IF dayOfWeekName(toks[2]) # -1
       THEN [tokens |-> toks, additive |-> FALSE, thrown |-> FALSE]
       ELSE [tokens |-> toks, additive |-> oldAdditive, thrown |-> TRUE]
  ELSE [tokens |-> toks, additive |-> oldAdditive, thrown |-> TRUE]

\* Exclusion::serialize.
serialize(toks) == EXC \o join(<<" ">>, toks)

----------------------------------------------------------------------------
\* The scanner (Pig) over a block: the unit under the cursor, "" at the end,
\* and whether that unit is an HH:MM:SS field (getHMS) and its time of day.

PigAt(block, i) == IF i <= Len(block) THEN block[i] ELSE ""
IsHMS(u)        == \E t \in Times : HMSText(t) = u
HMSOf(u)        == CHOOSE t \in Times : HMSText(t) = u

Returned(r) == [thrown |-> FALSE, range |-> r, what |-> <<>>]
Malformed(block) == [thrown |-> TRUE, range |-> Range(0, 0), what |-> block]

\* Exclusion::rangeFromTimeBlock.  `start' and `end' are what the caller
\* passes: the Datetime the walk stands on, and that Datetime incremented.
rangeFromTimeBlock(block, start, end) ==
  IF PigAt(block, 1) = "<"
  THEN IF IsHMS(PigAt(block, 2))
       THEN Returned(Range(start, DatetimeYMDHMS(start, HMSOf(PigAt(block, 2)))))
       ELSE Malformed(block)
  ELSE IF PigAt(block, 1) = ">"
  THEN IF IsHMS(PigAt(block, 2))
       THEN Returned(Range(DatetimeYMDHMS(start, HMSOf(PigAt(block, 2))), end))
       ELSE Malformed(block)
  ELSE IF IsHMS(PigAt(block, 1)) /\ PigAt(block, 2) = "-" /\ IsHMS(PigAt(block, 3))
  THEN Returned(Range(DatetimeYMDHMS(start, HMSOf(PigAt(block, 1))),
                      DatetimeYMDHMS(start, HMSOf(PigAt(block, 3)))))
  ELSE Malformed(block)

\* The result of a call of ranges: the vector it returns, or the exception
\* that leaves it (the vector under construction is then destroyed).
Results(rs)   == [thrown |-> FALSE, results |-> rs, what |-> <<>>]
Throws(block) == [thrown |-> TRUE, results |-> <<>>, what |-> block]

\* Mutant of rangesDay: the overlap test is dropped.
rangesDay_noOverlapTest(toks, range) ==
  LET start == DatetimeFromText(toks[4])
      end   == DatetimeIncrement(start)
  IN  Results(<<Range(start, end)>>)

\* ranges, the day on / day off branch: the one day of tokens[3], when it
\* overlaps the range.  (tokens[3] of the code is toks[4] here.)
rangesDay(toks, range) ==
  LET start == DatetimeFromText(toks[4])
      end   == DatetimeIncrement(start)
      day   == Range(start, end)
  IN  IF overlap(range, day) THEN Results(<<day>>) ELSE Results(<<>>)

\* ranges, the loop over the blocks of one matched day, from token b on.
RECURSIVE blocksOfDay(_, _, _, _, _)
blocksOfDay(toks, b, start, end, results) ==
  IF b > Len(toks) THEN Results(results)
  ELSE LET r == rangeFromTimeBlock(toks[b], start, end)
       IN  IF r.thrown THEN Throws(r.what)
           ELSE blocksOfDay(toks, b + 1, start, end, Append(results, r.range))

\* Mutant of walk: the loop runs while start <= range.end.
RECURSIVE walk_inclusive(_, _, _, _, _)
walk_inclusive(toks, dow, start, rangeEnd, results) ==
  IF ~(start <= rangeEnd) THEN Results(results)
  ELSE IF dayOfWeek(start) = dow
       THEN LET r == blocksOfDay(toks, 3, start, DatetimeIncrement(start), results)
            IN  IF r.thrown THEN r
                ELSE walk_inclusive(toks, dow, DatetimeIncrement(start), rangeEnd, r.results)
       ELSE walk_inclusive(toks, dow, DatetimeIncrement(start), rangeEnd, results)

\* ranges, the walk of the weekday branch: from `start', one increment at a
\* time, while start < range.end.
RECURSIVE walk(_, _, _, _, _)
walk(toks, dow, start, rangeEnd, results) ==
  IF ~(start < rangeEnd) THEN Results(results)
  ELSE IF dayOfWeek(start) = dow
       THEN LET r == blocksOfDay(toks, 3, start, DatetimeIncrement(start), results)
            IN  IF r.thrown THEN r
                ELSE walk(toks, dow, DatetimeIncrement(start), rangeEnd, r.results)
       ELSE walk(toks, dow, DatetimeIncrement(start), rangeEnd, results)

\* Exclusion::ranges.
ranges(toks, range) ==
  IF toks[2] = DAY /\ (toks[3] = ON \/ toks[3] = OFF)
  THEN rangesDay(toks, range)
  ELSE IF dayOfWeekName(toks[2]) # -1
  THEN walk(toks, dayOfWeekName(toks[2]), range.start, range.end, <<>>)
  ELSE Results(<<>>)

----------------------------------------------------------------------------
\* The inputs: rule lines and query ranges.

Blocks ==
  { <<"<", HMSText(1)>>, <<">", HMSText(1)>>,
    <<HMSText(1), "-", HMSText(2)>>, <<HMSText(2), "-", HMSText(1)>>,
    <<HMSText(1)>>, NOTATIME }

BlockLists == UNION { [1 .. n -> Blocks] : n \in 0 .. MaxBlocks }

\* Lines that are no rule: too short, too long, a wrong marker.
OddTokenLists ==
  { <<>>, <<EXC>>, <<FOO>>, <<EXC, DAY>>, <<EXC, DAY, ON>>,
    <<EXC, DAY, ON, DateText(0), DateText(1)>>,
    <<FOO, MONDAY, <<">", HMSText(1)>> >> }

\* Lines of the shape of a day override, with right and wrong keywords.
DayTokenLists ==
  { <<m, DAY, k, DateText(d)>> :
      m \in {EXC, FOO}, k \in {ON, OFF, FOO}, d \in Days }

\* Lines of the shape of a weekday rule, with zero or more blocks.
WeekdayTokenLists ==
  { <<EXC, w>> \o bs : w \in {MONDAY, FRIDAY, FOO}, bs \in BlockLists }

TokenLists == OddTokenLists \cup DayTokenLists \cup WeekdayTokenLists

\* Each token list as a line with single blanks; some with irregular blanks.
Lines ==
  { join(<<" ">>, ts) : ts \in TokenLists }
  \cup { <<" ">> \o join(<<" ", " ">>, ts) \o <<" ">> :
           ts \in OddTokenLists \cup DayTokenLists }

Bounds == { Range(s, e) : s \in Ticks, e \in Ticks }

----------------------------------------------------------------------------
\* State: the Exclusion object (tokens, additive) and how its last
\* initialize ended; the last serialize output and a second object
\* initialised from it; the ranges call under observation.

VARIABLES tokens, additive, status, text, copy, bound, outcome, results, malformed

vars == <<tokens, additive, status, text, copy, bound, outcome, results, malformed>>

NoCopy == [tokens |-> <<>>, additive |-> FALSE, status |-> "new"]

Init ==
  /\ tokens = <<>>
  /\ additive \in BOOLEAN
  /\ status = "new"
  /\ text = <<>>
  /\ copy = NoCopy
  /\ bound = Range(0, 0)
  /\ outcome = "none"
  /\ results = <<>>
  /\ malformed = <<>>

Initialize ==
  \E line \in Lines :
    LET r == initialize(line, additive) IN
    /\ tokens' = r.tokens
    /\ additive' = r.additive
    /\ status' = IF r.thrown THEN "SyntaxError" ELSE "ok"
    /\ text' = <<>>
    /\ copy' = NoCopy
    /\ UNCHANGED <<bound, outcome, results, malformed>>

Serialize ==
  /\ status # "new"
  /\ text' = serialize(tokens)
  /\ copy' = NoCopy
  /\ UNCHANGED <<tokens, additive, status, bound, outcome, results, malformed>>

\* A second, fresh object is initialised from the serialised text.
Reparse ==
  /\ text # <<>>
  /\ \E a \in BOOLEAN :
       LET r == initialize(text, a) IN
       copy' = [tokens |-> r.tokens, additive |-> r.additive,
                status |-> IF r.thrown THEN "SyntaxError" ELSE "ok"]
  /\ UNCHANGED <<tokens, additive, status, text, bound, outcome, results, malformed>>

\* One call of ranges on a successfully initialised object.  ranges is
\* const: the call leaves the object as it was.
Ranges ==
  /\ status = "ok"
  /\ outcome = "none"
  /\ \E range \in Bounds :
       LET r == ranges(tokens, range) IN
       /\ range.start <= range.end
       /\ bound' = range
       /\ outcome' = IF r.thrown THEN "MalformedBlock" ELSE "returned"
       /\ results' = r.results
       /\ malformed' = r.what
  /\ UNCHANGED <<tokens, additive, status, text, copy>>

\* The rule is constructed once from one line.
Construct == status = "new" /\ Initialize

Next == Initialize \/ Serialize \/ Reparse

Spec == Init /\ [][Next]_vars

NextRanges == Construct \/ Ranges

SpecRanges == Init /\ [][NextRanges]_vars

----------------------------------------------------------------------------
\* Vocabulary of the properties, stated without the operators of the code.

WeekdayNames ==
  {SUNDAY, MONDAY, TUESDAY, WEDNESDAY, THURSDAY, FRIDAY, SATURDAY}

IsDayOn(t)  == Len(t) = 4 /\ t[1] = EXC /\ t[2] = DAY /\ t[3] = ON
IsDayOff(t) == Len(t) = 4 /\ t[1] = EXC /\ t[2] = DAY /\ t[3] = OFF
IsDayRule(t) == IsDayOn(t) \/ IsDayOff(t)
\* A weekday rule with at least `least' blocks.
IsWeekdayRule(t, least) ==
  Len(t) >= 2 + least /\ t[1] = EXC /\ t[2] \in WeekdayNames

\* The calendar day d as an interval, and the day a date token names.
DayInterval(d) == [start |-> d * TicksPerDay, end |-> (d + 1) * TicksPerDay]
DateOf(tok)    == CHOOSE d \in Days : DateText(d) = tok

\* Two half-open intervals share an instant.
Instants == 0 .. ((MaxDay + 1) * TicksPerDay)
SharesInstant(a, b) ==
  \E x \in Instants : a.start <= x /\ x < a.end /\ b.start <= x /\ x < b.end

\* The three block forms, and the blocks of a rule.
TimeTexts == { HMSText(t) : t \in Times }
IsBefore(b)   == Len(b) = 2 /\ b[1] = "<" /\ b[2] \in TimeTexts
IsAfter(b)    == Len(b) = 2 /\ b[1] = ">" /\ b[2] \in TimeTexts
IsExplicit(b) == Len(b) = 3 /\ b[1] \in TimeTexts /\ b[2] = "-" /\ b[3] \in TimeTexts
WellFormed(b) == IsBefore(b) \/ IsAfter(b) \/ IsExplicit(b)
TimeOf(u)     == CHOOSE t \in Times : HMSText(t) = u
BlockCount(t) == Len(t) - 2
BlockOf(t, i) == t[3 + ((i - 1) % BlockCount(t))]

\* The weekday of a calendar day, and the days of weekday w of which the
\* range holds at least an instant (a partial first or last day counts).
WeekdayOfDay(d)   == (d + 1) % 7
WeekdayIndex(n)   == CHOOSE i \in 0 .. 6 :
                       <<SUNDAY, MONDAY, TUESDAY, WEDNESDAY, THURSDAY, FRIDAY, SATURDAY>>[i + 1] = n
MatchingDays(n, range) ==
  { d \in 0 .. MaxDay :
      WeekdayOfDay(d) = WeekdayIndex(n) /\ SharesInstant(DayInterval(d), range) }

\* What a block denotes on the calendar day d.
BlockInterval(b, d) ==
  IF IsBefore(b) THEN [start |-> d * TicksPerDay, end |-> d * TicksPerDay + TimeOf(b[2])]
  ELSE IF IsAfter(b)
  THEN [start |-> d * TicksPerDay + TimeOf(b[2]), end |-> (d + 1) * TicksPerDay]
  ELSE [start |-> d * TicksPerDay + TimeOf(b[1]), end |-> d * TicksPerDay + TimeOf(b[3])]

\* The calendar day a block's own time of day places a result on.
ResultDay(b, r) == IF IsBefore(b) THEN r.end \div TicksPerDay ELSE r.start \div TicksPerDay

----------------------------------------------------------------------------
\* C1 - Round trip: for a successfully parsed rule r, parse (serialize (r))
\* succeeds with the same tokens and the same additive flag.
C1_RoundTrip ==
  (status = "ok" /\ copy.status # "new") =>
    /\ copy.status = "ok"
    /\ copy.tokens = tokens
    /\ copy.additive = additive

\* C2 - Grammar coverage: parse succeeds with additive = TRUE exactly on
\* [exc, day, on, date], with additive = FALSE exactly on [exc, day, off,
\* date] and on [exc, weekday, block, ...] with at least one block, and
\* raises SyntaxError on every other token shape.
C2_GrammarCoverage ==
  status # "new" =>
    /\ (status = "ok" /\ additive) <=> IsDayOn(tokens)
    /\ (status = "ok" /\ ~additive) <=> (IsDayOff(tokens) \/ IsWeekdayRule(tokens, 1))
    /\ (status = "SyntaxError") <=>
         ~(IsDayOn(tokens) \/ IsDayOff(tokens) \/ IsWeekdayRule(tokens, 1))

\* C3 - Day override exactness: for a day on / day off rule with date d,
\* ranges returns at most one interval: exactly the day [d, d+1) when that
\* day and the bound share an instant, nothing otherwise.
C3_DayOverrideExact ==
  (outcome # "none" /\ IsDayRule(tokens)) =>
    LET day == DayInterval(DateOf(tokens[4])) IN
    /\ outcome = "returned"
    /\ Len(results) <= 1
    /\ SharesInstant(day, bound) => results = <<day>>
    /\ ~SharesInstant(day, bound) => results = <<>>

\* C3 witness: a day off rule and a bound that starts inside its day; the
\* day is returned whole.
C3_Witness ==
  /\ outcome = "returned"
  /\ IsDayOff(tokens)
  /\ bound.start > DayInterval(DateOf(tokens[4])).start
  /\ bound.start < DayInterval(DateOf(tokens[4])).end
  /\ results = <<DayInterval(DateOf(tokens[4]))>>

\* C4 - Weekday recurrence count: for a weekday rule with k well-formed
\* blocks, ranges returns k intervals for every day of that weekday the
\* bound holds an instant of (partial first and last days included) and
\* none for another day, ordered by day and, within a day, by block.
C4_WeekdayCount ==
  (outcome # "none" /\ IsWeekdayRule(tokens, 1)
     /\ \A b \in 3 .. Len(tokens) : WellFormed(tokens[b])) =>
    /\ outcome = "returned"
    /\ Len(results) = BlockCount(tokens) * Cardinality(MatchingDays(tokens[2], bound))
    /\ \A i \in 1 .. Len(results) :
         ResultDay(BlockOf(tokens, i), results[i]) \in MatchingDays(tokens[2], bound)
    /\ \A i \in 1 .. Len(results) : \A j \in 1 .. Len(results) :
         i < j => ResultDay(BlockOf(tokens, i), results[i])
                    <= ResultDay(BlockOf(tokens, j), results[j])

\* C5 - Open-ended and explicit blocks: every interval ranges returns for a
\* weekday rule is what its block denotes on a day D of the rule's weekday:
\* >T is [D at T, D+1 00:00:00), <T is [D 00:00:00, D at T), T1-T2 is
\* [D at T1, D at T2), whatever time of day the bound starts at.
C5_BlockIntervals ==
  (outcome = "returned" /\ IsWeekdayRule(tokens, 1)) =>
    \A i \in 1 .. Len(results) :
      \E d \in 0 .. MaxDay :
        /\ WeekdayOfDay(d) = WeekdayIndex(tokens[2])
        /\ results[i] = BlockInterval(BlockOf(tokens, i), d)

\* C6 - Malformed block, deferred failure: ranges on a weekday rule with a
\* block that cannot be decoded fails, naming a block, exactly when the
\* bound holds an instant of a day of the rule's weekday, and then returns
\* no interval; otherwise it returns the empty sequence.
C6_MalformedDeferred ==
  (outcome # "none" /\ IsWeekdayRule(tokens, 1)
     /\ \E b \in 3 .. Len(tokens) : ~WellFormed(tokens[b])) =>
    /\ (outcome = "MalformedBlock") <=> (MatchingDays(tokens[2], bound) # {})
    /\ outcome = "MalformedBlock" =>
         /\ results = <<>>
         /\ \E b \in 3 .. Len(tokens) : ~WellFormed(tokens[b]) /\ malformed = tokens[b]
    /\ outcome = "returned" => results = <<>>

\* C7 - Empty bound: for every successfully parsed rule and every bound
\* with start = end, ranges returns the empty sequence and raises no error.
C7_EmptyBound ==
  (outcome # "none" /\ bound.start = bound.end) =>
    (outcome = "returned" /\ results = <<>>)

\* C7 witness: an empty bound whose instant lies on a day of the weekday of
\* a rule with blocks, so that a walk that entered the day would decode them.
C7_Witness ==
  /\ outcome = "returned"
  /\ IsWeekdayRule(tokens, 1)
  /\ bound.start = bound.end
  /\ WeekdayOfDay(bound.start \div TicksPerDay) = WeekdayIndex(tokens[2])
  /\ bound.start % TicksPerDay # 0

\* C8 - Results stay inside the bound: every interval ranges returns shares
\* an instant with the bound.
C8_InsideBound ==
  outcome = "returned" =>
    \A i \in 1 .. Len(results) : SharesInstant(results[i], bound)

\* C9 - Interval well-formedness: every interval ranges returns has
\* start <= end.
C9_StartBeforeEnd ==
  outcome = "returned" =>
    \A i \in 1 .. Len(results) : results[i].start <= results[i].end

\* C10 - No invalid rule escapes a failed parse: whatever initialize calls
\* were made, the stored tokens are those of the fresh object or a rule
\* initialize accepts (first token the marker).
C10_NoInvalidEscapes ==
  \/ tokens = <<>>
  \/ IsDayOn(tokens) \/ IsDayOff(tokens) \/ IsWeekdayRule(tokens, 0)

====
